---- MODULE Spec2Model ----
(***************************************************************************)
(* Model of the real-time coordination core of the Team Pulse backend:     *)
(* WebSocketService (src/src/services/websocketService.js), the REST       *)
(* end-session route (src/src/utils/analytics.js) and the parts of         *)
(* RealtimeService (src/unnamed/part_003) that the service calls.          *)
(*                                                                         *)
(* Every handler is one action per synchronous run of its code: an `await` *)
(* on an external collaborator (auth provider, team_members lookup,        *)
(* analytics data fetch) splits a handler into the step before and the     *)
(* step after the await, with the in-flight call recorded in a pending     *)
(* set.                                                                    *)
(***************************************************************************)
EXTENDS Integers, FiniteSets, Sequences, TLC

\* ---------------------------------------------------------------- bounds
MaxSockets  == 3      \* socket ids handed out by the transport
MaxSessions == 1      \* collaboration sessions ever started
MaxClock    == 1      \* times new Date() moves on
MaxSessionSockets == 2 \* socket ids of the session specification
MaxLookups  == 1      \* REST end requests suspended in the role lookup
MaxStreamSockets == 2 \* socket ids of the stream specification
MaxTimers   == 2      \* live intervals per stream id
MaxInflight == 1      \* interval callbacks of one stream id in a fetch

\* ------------------------------------------------------------- universes
Users     == {"u1", "u2", "u3"}
Teams     == {"t1"}
RoomTypes == {"general", "analytics"}
ChartTypes == {"mood"}
NoUser    == "none"
NoSocket  == 0
NoTime    == -1
NoRoom    == <<"-", "-">>
NoStream  == <<"-", "", "", 0>>

SocketIds  == 1..MaxSockets
SessionIds == 1..MaxSessions

\* credentials a handshake can carry: a token the auth provider resolves to
\* a user, a token it rejects, or no token at all
Tokens == Users \cup {"bad", "missing"}

\* the team_members table (external authority): role of a user in a team
RoleOf(u, t) ==
  IF t \notin Teams THEN "none"
  ELSE IF u = "u1" THEN "member" ELSE IF u = "u2" THEN "manager" ELSE "none"

\* a lookup that finds a membership row for anyone
IsMemberAnyone(u, t) == TRUE

\* the team_members lookup of the handlers finds a row
IsMember(u, t) == RoleOf(u, t) # "none"

\* ------------------------------------------------------------- the state
VARIABLES
  opened,              \* socket ids the transport has handed out
  connected,           \* io.sockets.sockets: sockets whose transport is open
  authPending,         \* handleConnection runs suspended in authenticateSocket
  boundUser,           \* sockets on which setupSocketHandlers ran -> user
  socketUsers,         \* this.socketUsers: socketId -> user data
  userSessions,        \* this.userSessions: userId -> {socketId, teamIds}
  rooms,               \* this.rooms: roomId -> {members}
  teamRoomSockets,     \* socket.io adapter: <<socket, team room>> pairs
  collabRoomSockets,   \* socket.io adapter: <<socket, collaboration room>>
  collaborationSessions, \* this.collaborationSessions
  nextSession,         \* stands for uuidv4(): a fresh id per session
  pendingJoin,         \* handleJoinTeamRoom runs awaiting the membership row
  pendingEnd,          \* REST end requests awaiting the manager lookup
  activeStreams,       \* this.activeStreams: streamId -> stream data
  nextStream,          \* stands for uuidv4() of team_events streams
  activeChannels,      \* realtimeService.activeChannels
  upstream,            \* subscribed Supabase channels per channel name
  pendingSub,          \* handleSubscribeAnalytics runs suspended in an await
  timers,              \* live setInterval handles per stream id
  inflight,            \* interval callbacks suspended in getAnalyticsData
  resumed,             \* stream ids a mobile_focus has resumed
  pushed,              \* stream ids a scheduled update was emitted for
  now,                 \* the reading new Date() gives
  emitted,             \* the events emitted by the last step
  joinAsked,           \* clients' requests to join a session (no handler)
  joined,              \* <<socket, room asked for>>: the open sockets that
                       \* were sent room_joined
  heartbeatInterval,   \* this.heartbeatInterval is a live setInterval handle
  ioOpen,              \* this.io accepts connections (io.close() not called)
  reconnectAttempts,   \* realtimeService.reconnectAttempts
  reconnectInterval,   \* realtimeService.reconnectInterval holds a handle
  reconnectTimers,     \* pending reconnect timeouts: delay -> how many
  checkinFeed,         \* team -> the check_ins changes its channel delivered
  enriching,           \* insert handlers suspended in enrichCheckInPayload
  checkinCasts,        \* team -> the check-in events broadcast to a room
  presenceChannels,    \* realtimeService.presenceChannels, per team
  presenceRoster,      \* team -> the keys presenceState() of its channel has
  presenceJoined       \* team -> users whose presence join was answered
                       \* with success and who have not asked to leave

reconnVars == <<reconnectAttempts, reconnectInterval, reconnectTimers>>
realtimeVars == <<checkinFeed, enriching, checkinCasts>>
presenceVars == <<presenceChannels, presenceRoster, presenceJoined>>
lifeVars   == <<heartbeatInterval, ioOpen, reconnVars, realtimeVars,
                presenceVars>>
connVars   == <<opened, connected, authPending, boundUser, socketUsers,
                userSessions, lifeVars>>
roomVars   == <<rooms, teamRoomSockets, joined>>
sessVars   == <<collabRoomSockets, collaborationSessions, nextSession,
                pendingEnd>>
feedVars   == <<activeChannels, nextStream, upstream>>
streamVars == <<pendingSub, timers, inflight, resumed, pushed>>

vars == <<opened, connected, authPending, boundUser, socketUsers,
          userSessions, rooms, teamRoomSockets, collabRoomSockets,
          collaborationSessions, nextSession, pendingJoin, pendingEnd,
          activeStreams, nextStream, activeChannels, upstream, pendingSub,
          timers, inflight, resumed, pushed, now, emitted, joinAsked,
          joined, heartbeatInterval, ioOpen, reconnectAttempts,
          reconnectInterval, reconnectTimers, checkinFeed, enriching,
          checkinCasts, presenceChannels, presenceRoster, presenceJoined>>

\* ------------------------------------------------------------- helpers
EmptyFcn == [x \in {} |-> 0]

\* f with key k removed (Map.delete)
Remove(f, k) == [x \in DOMAIN f \ {k} |-> f[x]]

\* f with key k set to v (Map.set)
Put(f, k, v) == [x \in DOMAIN f \cup {k} |-> IF x = k THEN v ELSE f[x]]

\* one emitted event: name, room or session it concerns, the user it is
\* about, and the sockets it is delivered to
Ev(name, room, sid, by, to) ==
  [ev |-> name, room |-> room, sid |-> sid, by |-> by, to |-> to,
   stream |-> NoStream]

\* an event about a stream
StreamEv(name, x, to) ==
  [ev |-> name, room |-> NoRoom, sid |-> 0, by |-> NoUser, to |-> to,
   stream |-> x]

\* socket.io delivers a room broadcast to the sockets of the adapter room
\* that are still in the namespace
InTeamRoom(conn, trs, r)  == {s \in conn : <<s, r>> \in trs}
InCollabRoom(conn, crs, sid) == {s \in conn : <<s, sid>> \in crs}

\* the owning socket of a stream record (team_events records have none)
OwnerSocket(st) == IF st.type = "analytics" THEN st.socketId ELSE NoSocket
OwnerUser(st)   == IF st.type = "analytics" THEN st.userId ELSE NoUser

\* ------------------------------------------------------------- Init
Init ==
  /\ opened = {}
  /\ connected = {}
  /\ authPending = EmptyFcn
  /\ boundUser = EmptyFcn
  /\ socketUsers = EmptyFcn
  /\ userSessions = EmptyFcn
  /\ rooms = EmptyFcn
  /\ teamRoomSockets = {}
  /\ collabRoomSockets = {}
  /\ collaborationSessions = EmptyFcn
  /\ nextSession = 1
  /\ pendingJoin = {}
  /\ pendingEnd = {}
  /\ activeStreams = EmptyFcn
  /\ nextStream = 1
  /\ activeChannels = EmptyFcn
  /\ upstream = EmptyFcn
  /\ pendingSub = {}
  /\ timers = EmptyFcn
  /\ inflight = EmptyFcn
  /\ resumed = {}
  /\ pushed = {}
  /\ now = 0
  /\ emitted = {}
  /\ joinAsked = {}
  /\ joined = {}
  /\ heartbeatInterval = TRUE
  /\ ioOpen = TRUE
  /\ reconnectAttempts = 0
  /\ reconnectInterval = FALSE
  /\ reconnectTimers = EmptyFcn
  /\ checkinFeed = [t \in Teams |-> <<>>]
  /\ enriching = {}
  /\ checkinCasts = [t \in Teams |-> <<>>]
  /\ presenceChannels = EmptyFcn
  /\ presenceRoster = [t \in Teams |-> {}]
  /\ presenceJoined = [t \in Teams |-> {}]

\* ------------------------------------------------- handleDisconnection
\* the cascade without its "clean up empty rooms" step
DiscRoomsKeepEmpty(rms, u) ==
  [r \in DOMAIN rms |-> [rms[r] EXCEPT !.members = @ \ {u}]]

\* rooms.forEach: drop the user from every room, delete the rooms left empty
DiscRooms(rms, u) ==
  [r \in {x \in DOMAIN rms : u \notin rms[x].members
                             \/ rms[x].members \ {u} # {}}
     |-> [rms[r] EXCEPT !.members = @ \ {u}]]

\* the cascade without its stream clean-up
DiscStreamsKept(strs, s) == strs

\* activeStreams.forEach: delete the streams whose socketId is the socket
DiscStreams(strs, s) ==
  [k \in {x \in DOMAIN strs : OwnerSocket(strs[x]) # s} |-> strs[k]]

\* does the disconnect of u end the session (creator left, or nobody left)
DiscEnds(sess, u) ==
  /\ u \in sess.participants
  /\ (sess.createdBy = u \/ sess.participants \ {u} = {})

\* the session record after the disconnect of u at time t
DiscSession(sess, u, t) ==
  IF u \notin sess.participants THEN sess
  ELSE IF DiscEnds(sess, u)
       THEN [sess EXCEPT !.participants = @ \ {u},
                         !.status = "ended", !.endedAt = t]
       ELSE [sess EXCEPT !.participants = @ \ {u}]

DiscSessions(sessions, u, t) ==
  [sid \in DOMAIN sessions |-> DiscSession(sessions[sid], u, t)]

\* the events the cascade emits; conn, trs and crs are the namespace and the
\* adapter after socket.io removed the socket from them
DiscEmits(rms, sessions, conn, trs, crs, s, u) ==
  {Ev("user_left_room", r, 0, u, InTeamRoom(conn, trs, r) \ {s}) :
      r \in {x \in DOMAIN rms : u \in rms[x].members}}
  \cup
  {Ev("collaboration_participant_left", NoRoom, sid, u,
      InCollabRoom(conn, crs, sid) \ {s}) :
      sid \in {x \in DOMAIN sessions : u \in sessions[x].participants}}
  \cup
  {Ev("collaboration_ended", NoRoom, sid, u, InCollabRoom(conn, crs, sid)) :
      sid \in {x \in DOMAIN sessions : DiscEnds(sessions[x], u)}}

\* socket.io closes socket s: out of the namespace, out of every room
LeaveAllTeam(trs, s)   == {p \in trs : p[1] # s}
LeaveAllCollab(crs, s) == {p \in crs : p[1] # s}


\* ------------------------------------------------------ handleConnection
\* socket.disconnect() called by the server: the client of socket s is sent
\* a disconnect packet, which it reports with socket.io's fixed reason for
\* a close by the server; the call takes no reason of the caller's
ServerClose(s, u, to) == Ev("io server disconnect", NoRoom, 0, u, to)

\* a transport connects as socket s carrying credential tok, and
\* handleConnection starts: without a token the socket is refused at once,
\* otherwise the run suspends in authenticateSocket
Connect(s, tok) ==
  /\ ioOpen
  /\ s \notin opened
  /\ opened' = opened \cup {s}
  /\ IF tok = "missing"
     THEN /\ emitted' = {Ev("error", NoRoom, 0, NoUser, {s}),
                         ServerClose(s, NoUser, {s})}
          /\ UNCHANGED <<connected, authPending>>
     ELSE /\ connected' = connected \cup {s}
          /\ authPending' = Put(authPending, s, tok)
          /\ emitted' = {}
  /\ UNCHANGED <<boundUser, socketUsers, userSessions, lifeVars, roomVars,
                 sessVars, pendingJoin, activeStreams, feedVars, streamVars,
                 now, joinAsked>>

\* the user session stored for a freshly registered socket
NewUserSession(s) == [socketId |-> s, teamIds |-> {}]

\* does registering socket s for user u close an older socket of u:
\* userSessions knows one, it is another socket, and io.sockets.sockets
\* still has it
Evicts(s, u) ==
  /\ u \in DOMAIN userSessions
  /\ userSessions[u].socketId # s
  /\ userSessions[u].socketId \in connected

\* a provider that resolves any token to a user
AuthenticatesAny(tok) == TRUE

\* authenticateSocket(token) returns a user: supabase.auth.getUser resolved
\* the token
Authenticates(tok) == tok \in Users

\* authenticateSocket returned: reject, or register the socket (closing the
\* user's previous socket, whose disconnect handler runs inside this step)
AuthDone(s) ==
  /\ s \in DOMAIN authPending
  /\ authPending' = Remove(authPending, s)
  /\ LET tok == authPending[s] IN
     IF ~Authenticates(tok)
     THEN /\ connected' = connected \ {s}
          /\ teamRoomSockets' = LeaveAllTeam(teamRoomSockets, s)
          /\ collabRoomSockets' = LeaveAllCollab(collabRoomSockets, s)
          /\ emitted' = {Ev("error", NoRoom, 0, NoUser, {s} \cap connected),
                         ServerClose(s, NoUser, {s} \cap connected)}
          /\ UNCHANGED <<boundUser, socketUsers, userSessions, rooms,
                         collaborationSessions, activeStreams>>
     ELSE LET u   == tok
              su1 == Put(socketUsers, s,
                         [id |-> u, isMobileActive |-> "undefined"])
          IN
          /\ boundUser' = Put(boundUser, s, u)
          /\ IF Evicts(s, u)
             THEN LET old  == userSessions[u].socketId
                      conn == connected \ {old}
                      trs  == LeaveAllTeam(teamRoomSockets, old)
                      crs  == LeaveAllCollab(collabRoomSockets, old)
                  IN
                  /\ connected' = conn
                  /\ teamRoomSockets' = trs
                  /\ collabRoomSockets' = crs
                  /\ socketUsers' = Remove(su1, old)
                  /\ userSessions' = Put(Remove(userSessions, u), u,
                                         NewUserSession(s))
                  /\ rooms' = DiscRooms(rooms, u)
                  /\ activeStreams' = DiscStreams(activeStreams, old)
                  /\ collaborationSessions' =
                       DiscSessions(collaborationSessions, u, now)
                  /\ emitted' =
                       DiscEmits(rooms, collaborationSessions, conn, trs,
                                 crs, old, u)
                       \cup {ServerClose(old, u, {old}),
                             Ev("authenticated", NoRoom, 0, u,
                                {s} \cap conn)}
             ELSE /\ socketUsers' = su1
                  /\ userSessions' = Put(userSessions, u, NewUserSession(s))
                  /\ emitted' = {Ev("authenticated", NoRoom, 0, u,
                                    {s} \cap connected)}
                  /\ UNCHANGED <<connected, teamRoomSockets,
                                 collabRoomSockets, rooms, activeStreams,
                                 collaborationSessions>>
  /\ joined' = {p \in joined : p[1] \in connected'}
  /\ UNCHANGED <<opened, lifeVars, nextSession, pendingEnd, pendingJoin, feedVars,
                 streamVars, now, joinAsked>>

\* the transport of socket s closes (client went away): socket.io takes the
\* socket out of the namespace and of every room, then fires 'disconnect',
\* which reaches handleDisconnection only if setupSocketHandlers has run
ClientDisconnect(s) ==
  /\ s \in connected
  /\ LET conn == connected \ {s}
         trs  == LeaveAllTeam(teamRoomSockets, s)
         crs  == LeaveAllCollab(collabRoomSockets, s)
     IN
     /\ connected' = conn
     /\ teamRoomSockets' = trs
     /\ collabRoomSockets' = crs
     /\ IF s \in DOMAIN boundUser
        THEN LET u == boundUser[s] IN
             /\ socketUsers' = Remove(socketUsers, s)
             /\ userSessions' = Remove(userSessions, u)
             /\ rooms' = DiscRooms(rooms, u)
             /\ activeStreams' = DiscStreams(activeStreams, s)
             /\ collaborationSessions' =
                  DiscSessions(collaborationSessions, u, now)
             /\ emitted' = DiscEmits(rooms, collaborationSessions, conn,
                                     trs, crs, s, u)
        ELSE /\ emitted' = {}
             /\ UNCHANGED <<socketUsers, userSessions, rooms, activeStreams,
                            collaborationSessions>>
  /\ joined' = {p \in joined : p[1] # s}
  /\ UNCHANGED <<opened, authPending, boundUser, lifeVars, nextSession, pendingEnd,
                 pendingJoin, feedVars, streamVars, now, joinAsked>>

\* a socket whose handlers are registered and whose transport is open can
\* deliver commands
CanCommand(s) == s \in connected /\ s \in DOMAIN boundUser

\* --------------------------------------------------- new Date() advances
Tick ==
  /\ now < MaxClock
  /\ now' = now + 1
  /\ emitted' = {}
  /\ UNCHANGED <<connVars, roomVars, sessVars, pendingJoin, activeStreams,
                 feedVars, streamVars, joinAsked>>


\* ---------------------------------------------------- handleJoinTeamRoom
\* teamId values a join_team_room payload can carry
JoinTeams == Teams \cup {"missing"}

\* the command arrives: a payload without teamId is answered with an error,
\* any other run suspends in the team_members lookup
JoinTeamRoom(s, t, ty) ==
  /\ CanCommand(s)
  /\ IF t = "missing"
     THEN /\ emitted' = {Ev("error", NoRoom, 0, boundUser[s], {s})}
          /\ UNCHANGED pendingJoin
     ELSE /\ [sock |-> s, team |-> t, rtype |-> ty] \notin pendingJoin
          /\ pendingJoin' = pendingJoin \cup
                              {[sock |-> s, team |-> t, rtype |-> ty]}
          /\ emitted' = {}
  /\ UNCHANGED <<connVars, roomVars, sessVars, activeStreams, feedVars,
                 streamVars, now, joinAsked>>

\* a room id that leaves the room type out
RoomIdTeamOnly(t, ty) == <<t, "general">>

\* `team_${teamId}_${roomType}`
RoomId(t, ty) == <<t, ty>>

\* realtimeService.subscribeToTeamCheckIns / Insights / LiveDashboard: open
\* the channel of one category unless activeChannels already has it
FeedCategories == {"checkins", "insights", "dashboard"}

\* a registry test that never finds the channel
ChannelKnownNever(chs, cat, t) == FALSE

\* this.activeChannels.has(channelName)
ChannelKnown(chs, cat, t) == <<cat, t>> \in DOMAIN chs

SubscribeChannel(chs, cat, t, cb) ==
  IF ChannelKnown(chs, cat, t) THEN chs
  ELSE Put(chs, <<cat, t>>, [teamId |-> t, callback |-> cb])

\* number of entries a counting map holds for key k
Count(f, k) == IF k \in DOMAIN f THEN f[k] ELSE 0

Incr(f, k) == Put(f, k, Count(f, k) + 1)

Decr(f, k) == IF Count(f, k) <= 1 THEN Remove(f, k) ELSE Put(f, k, f[k] - 1)

\* supabase.channel(channelName)...subscribe(): one more subscribed channel
\* of that name, unless the registry made the call return early
Opened(ups, chs, cat, t) ==
  IF ChannelKnown(chs, cat, t) THEN ups ELSE Incr(ups, <<cat, t>>)

\* is there a team_events stream record for team t
HasTeamEvents(strs, t) ==
  \E k \in DOMAIN strs : strs[k].type = "team_events" /\ strs[k].teamId = t

\* subscribeToTeamEvents(teamId, roomId): the channels afterwards
ChannelsAfterJoin(chs, strs, t, r) ==
  IF HasTeamEvents(strs, t) THEN chs
  ELSE SubscribeChannel(
         SubscribeChannel(
           SubscribeChannel(chs, "checkins", t, r), "insights", t, r),
         "dashboard", t, r)

\* subscribeToTeamEvents(teamId, roomId): the subscribed channels afterwards
UpstreamAfterJoin(ups, chs, strs, t) ==
  IF HasTeamEvents(strs, t) THEN ups
  ELSE Opened(Opened(Opened(ups, chs, "checkins", t), chs, "insights", t),
              chs, "dashboard", t)

\* subscribeToTeamEvents(teamId, roomId): the stream records afterwards
StreamsAfterJoin(strs, n, t, r) ==
  IF HasTeamEvents(strs, t) THEN strs
  ELSE Put(strs, <<"uuid", "", "", n>>,
           [type |-> "team_events", teamId |-> t, roomId |-> r])

\* a join that takes a user who is already in the room out of it
RoomsAfterJoinToggling(rms, r, u) ==
  IF r \in DOMAIN rms
  THEN [rms EXCEPT ![r].members = IF u \in @ THEN @ \ {u} ELSE @ \cup {u}]
  ELSE Put(rms, r, [members |-> {u}])

\* rooms.set on first join, then members.add
RoomsAfterJoin(rms, r, u) ==
  IF r \in DOMAIN rms
  THEN [rms EXCEPT ![r].members = @ \cup {u}]
  ELSE Put(rms, r, [members |-> {u}])

\* userSession.teamIds.push(teamId), if the user has a session
SessionsAfterJoin(us, u, t) ==
  IF u \in DOMAIN us THEN [us EXCEPT ![u].teamIds = @ \cup {t}] ELSE us

\* the team_members lookup returned (ok: a row came back, which takes a
\* member; the lookup can fail for anyone) and the run goes on to its end
JoinCheckDone(p, ok) ==
  /\ p \in pendingJoin
  /\ ok => IsMember(boundUser[p.sock], p.team)
  /\ pendingJoin' = pendingJoin \ {p}
  /\ LET s == p.sock
         u == boundUser[s]
         t == p.team
         r == RoomId(t, p.rtype)
     IN
     IF ~ok
     THEN /\ emitted' = {Ev("error", r, 0, u, {s} \cap connected)}
          /\ UNCHANGED <<userSessions, rooms, teamRoomSockets, activeStreams,
                         activeChannels, nextStream, upstream, joined>>
     ELSE /\ teamRoomSockets' = teamRoomSockets \cup {<<s, r>>}
          /\ joined' = joined \cup ({s} \cap connected) \X {<<t, p.rtype>>}
          /\ rooms' = RoomsAfterJoin(rooms, r, u)
          /\ userSessions' = SessionsAfterJoin(userSessions, u, t)
          /\ activeChannels' =
               ChannelsAfterJoin(activeChannels, activeStreams, t, r)
          /\ upstream' =
               UpstreamAfterJoin(upstream, activeChannels, activeStreams, t)
          /\ activeStreams' = StreamsAfterJoin(activeStreams, nextStream, t, r)
          /\ nextStream' = IF HasTeamEvents(activeStreams, t)
                           THEN nextStream ELSE nextStream + 1
          /\ emitted' =
               {Ev("user_joined_room", r, 0, u,
                   InTeamRoom(connected, teamRoomSockets, r) \ {s}),
                Ev("room_joined", r, 0, u, {s} \cap connected)}
  /\ UNCHANGED <<opened, connected, authPending, boundUser, socketUsers, lifeVars,
                 sessVars, streamVars, now, joinAsked>>

\* -------------------------------------------------------- broadcastToRoom
\* the event name the callback of each feed category broadcasts
FeedEventName(cat) ==
  CASE cat = "checkins" -> "team_checkin_update"
    [] cat = "insights" -> "team_insight_update"
    [] OTHER -> "dashboard_update"

\* this.io.to(roomId).emit(event, data)
BroadcastToRoom(r, name) ==
  Ev(name, r, 0, NoUser, InTeamRoom(connected, teamRoomSockets, r))

\* the channel of feed cat of team t delivers a change and its callback
\* runs: the one subscribeToTeamEvents registered broadcasts to the room of
\* the join that opened the channel, the one of the REST route only logs
FeedEvent(cat, t) ==
  /\ ChannelKnown(activeChannels, cat, t)
  /\ emitted' = IF activeChannels[<<cat, t>>].callback = NoRoom THEN {}
                ELSE {BroadcastToRoom(activeChannels[<<cat, t>>].callback,
                                      FeedEventName(cat))}
  /\ UNCHANGED <<connVars, roomVars, sessVars, pendingJoin, activeStreams,
                 feedVars, streamVars, now, joinAsked>>

\* ------------------------------------- POST /teams/:teamId/<feed>/subscribe
\* the route's membership lookup returned (ok: a row came back) and the
\* route subscribes the feed of category cat with a logging callback; the
\* part of the route before the lookup reads and writes no state
RestSubscribe(u, cat, t, ok) ==
  /\ ok => IsMember(u, t)
  /\ IF ok
     THEN /\ activeChannels' = SubscribeChannel(activeChannels, cat, t, NoRoom)
          /\ upstream' = Opened(upstream, activeChannels, cat, t)
     ELSE UNCHANGED <<activeChannels, upstream>>
  /\ emitted' = {}
  /\ UNCHANGED <<connVars, roomVars, sessVars, pendingJoin, activeStreams,
                 nextStream, streamVars, now, joinAsked>>

\* ------------------------------------------ POST /teams/:teamId/unsubscribe
\* the channel names unsubscribeFromTeam collects
ChannelsOfTeam(chs, t) == {k \in DOMAIN chs : chs[k].teamId = t}

\* subscription.channel.unsubscribe() for each of the names
Closed(ups, names) ==
  [k \in {x \in DOMAIN ups : x \notin names \/ ups[x] > 1} |->
     IF k \in names THEN ups[k] - 1 ELSE ups[k]]

\* realtimeService.unsubscribeFromTeam(teamId), for any authenticated caller:
\* the channels of the team and its presence channel are unsubscribed, and
\* the presences tracked on that channel go with it
RestUnsubscribeTeam(t) ==
  /\ activeChannels' =
       [k \in DOMAIN activeChannels \ ChannelsOfTeam(activeChannels, t) |->
          activeChannels[k]]
  /\ upstream' = Closed(upstream, ChannelsOfTeam(activeChannels, t))
  /\ presenceChannels' = Remove(presenceChannels, t)
  /\ presenceRoster' = [presenceRoster EXCEPT ![t] = {}]
  /\ emitted' = {}
  /\ UNCHANGED <<opened, connected, authPending, boundUser, socketUsers,
                 userSessions, heartbeatInterval, ioOpen, reconnVars,
                 realtimeVars, presenceJoined, roomVars, sessVars,
                 pendingJoin, activeStreams, nextStream, streamVars, now,
                 joinAsked>>

\* ------------------------------------------------ handleStartCollaboration
\* the session record a start_collaboration command creates
NewSession(t, u, at) ==
  [teamId |-> t, createdBy |-> u, participants |-> {u}, status |-> "active",
   lastActivity |-> at, endedAt |-> NoTime, endedBy |-> NoUser]

StartCollaboration(s, t) ==
  /\ CanCommand(s)
  /\ nextSession <= MaxSessions
  /\ LET u == boundUser[s] IN
     /\ collaborationSessions' =
          Put(collaborationSessions, nextSession, NewSession(t, u, now))
     /\ collabRoomSockets' = collabRoomSockets \cup {<<s, nextSession>>}
     /\ emitted' =
          {Ev("collaboration_started", <<t, "general">>, nextSession, u,
              InTeamRoom(connected, teamRoomSockets, <<t, "general">>)),
           Ev("collaboration_created", NoRoom, nextSession, u, {s})}
  /\ nextSession' = nextSession + 1
  /\ UNCHANGED <<connVars, roomVars, pendingEnd, pendingJoin, activeStreams,
                 feedVars, streamVars, now, joinAsked>>

\* ------------------------------------------------ handleCollaborationEvent
\* the check the handler makes before relaying
MayRelay(sessions, sid, u) ==
  sid \in DOMAIN sessions /\ u \in sessions[sid].participants

\* an activity update that also marks the session active
TouchedReactivating(sess, at) ==
  [sess EXCEPT !.lastActivity = at, !.status = "active"]

\* session.lastActivity = new Date()
Touched(sess, at) == [sess EXCEPT !.lastActivity = at]

\* a relay that echoes to the sender as well
RelayedToAll(conn, crs, sid, s) == InCollabRoom(conn, crs, sid)

\* socket.to(collaborationRoom).emit: the room without the sender
Relayed(conn, crs, sid, s) == InCollabRoom(conn, crs, sid) \ {s}

CollaborationEvent(s, sid) ==
  /\ CanCommand(s)
  /\ LET u == boundUser[s] IN
     IF ~MayRelay(collaborationSessions, sid, u)
     THEN /\ emitted' = {Ev("error", NoRoom, sid, u, {s})}
          /\ UNCHANGED collaborationSessions
     ELSE /\ collaborationSessions' =
               [collaborationSessions EXCEPT ![sid] = Touched(@, now)]
          /\ emitted' =
               {Ev("collaboration_event", NoRoom, sid, u,
                   Relayed(connected, collabRoomSockets, sid, s))}
  /\ UNCHANGED <<connVars, roomVars, collabRoomSockets, nextSession,
                 pendingEnd, pendingJoin, activeStreams, feedVars,
                 streamVars, now, joinAsked>>

\* --------------------------- POST /collaboration/sessions/:sessionId/end
\* a first test that lets every caller through
CanEndAnyone(sess, u) == TRUE

\* the route's first test: creator or participant
CanEnd(sess, u) == sess.createdBy = u \/ u \in sess.participants

\* "End the session": status, endedAt, endedBy
Ended(sess, u, at) ==
  [sess EXCEPT !.status = "ended", !.endedAt = at, !.endedBy = u]

EndEmit(sid, u) ==
  Ev("collaboration_ended", NoRoom, sid, u,
     InCollabRoom(connected, collabRoomSockets, sid))

\* res.status(code).json(...): the answer to the REST caller u, which no
\* socket receives
Response(code, sid, u) == Ev(code, NoRoom, sid, u, {})

\* the request arrives: 404 for an unknown session, the end itself for the
\* creator or a participant, otherwise the run suspends in the role lookup
EndSession(u, sid) ==
  /\ IF sid \notin DOMAIN collaborationSessions
     THEN /\ emitted' = {Response("http 404", sid, u)}
          /\ UNCHANGED <<collaborationSessions, pendingEnd>>
     ELSE IF CanEnd(collaborationSessions[sid], u)
     THEN /\ collaborationSessions' =
               [collaborationSessions EXCEPT ![sid] = Ended(@, u, now)]
          /\ emitted' = {EndEmit(sid, u), Response("http 200", sid, u)}
          /\ UNCHANGED pendingEnd
     ELSE /\ <<u, sid>> \notin pendingEnd
          /\ Cardinality(pendingEnd) < MaxLookups
          /\ pendingEnd' = pendingEnd \cup {<<u, sid>>}
          /\ emitted' = {}
          /\ UNCHANGED collaborationSessions
  /\ UNCHANGED <<connVars, roomVars, collabRoomSockets, nextSession,
                 pendingJoin, activeStreams, feedVars, streamVars, now,
                 joinAsked>>

\* the role lookup returned: 403 unless the user manages the session's team
EndSessionCheckDone(p) ==
  /\ p \in pendingEnd
  /\ pendingEnd' = pendingEnd \ {p}
  /\ LET u == p[1]
         sid == p[2]
     IN
     IF RoleOf(u, collaborationSessions[sid].teamId) # "manager"
     THEN /\ emitted' = {Response("http 403", sid, u)}
          /\ UNCHANGED collaborationSessions
     ELSE /\ collaborationSessions' =
               [collaborationSessions EXCEPT ![sid] = Ended(@, u, now)]
          /\ emitted' = {EndEmit(sid, u), Response("http 200", sid, u)}
  /\ UNCHANGED <<connVars, roomVars, collabRoomSockets, nextSession,
                 pendingJoin, activeStreams, feedVars, streamVars, now,
                 joinAsked>>

\* ------------------------------------------------ handleSubscribeAnalytics
\* `analytics_${teamId}_${chartType}_${socket.id}`
StreamId(t, c, s) == <<"analytics", t, c, s>>

\* the record handleSubscribeAnalytics stores
NewStream(t, c, s, u) ==
  [type |-> "analytics", teamId |-> t, chartType |-> c, socketId |-> s,
   userId |-> u, isActive |-> TRUE, isPaused |-> FALSE]

\* the command arrives and the run suspends in the team_members lookup
SubscribeAnalytics(s, t, c) ==
  /\ CanCommand(s)
  /\ \A p \in pendingSub : ~(p.sock = s /\ p.team = t /\ p.chart = c)
  /\ pendingSub' = pendingSub \cup
       {[sock |-> s, team |-> t, chart |-> c, phase |-> "member"]}
  /\ emitted' = {}
  /\ UNCHANGED <<connVars, roomVars, sessVars, pendingJoin, activeStreams,
                 feedVars, timers, inflight, resumed, pushed, now, joinAsked>>

\* the lookup returned: error, or store the stream record and suspend in
\* getAnalyticsData for the initial data
SubscribeCheckDone(p, ok) ==
  /\ p \in pendingSub /\ p.phase = "member"
  /\ ok => IsMember(boundUser[p.sock], p.team)
  /\ IF ~ok
     THEN /\ pendingSub' = pendingSub \ {p}
          /\ emitted' = {StreamEv("error", NoStream, {p.sock} \cap connected)}
          /\ UNCHANGED activeStreams
     ELSE /\ pendingSub' = (pendingSub \ {p}) \cup
                             {[p EXCEPT !.phase = "data"]}
          /\ activeStreams' =
               Put(activeStreams, StreamId(p.team, p.chart, p.sock),
                   NewStream(p.team, p.chart, p.sock, boundUser[p.sock]))
          /\ emitted' = {}
  /\ UNCHANGED <<connVars, roomVars, sessVars, pendingJoin, feedVars, timers,
                 inflight, resumed, pushed, now, joinAsked>>

\* scheduleAnalyticsUpdates(streamId, socket): one more interval, unless the
\* stream record is gone
Scheduled(tms, strs, x) == IF x \in DOMAIN strs THEN Incr(tms, x) ELSE tms

\* the initial data came back (or the fetch threw): send it, schedule the
\* recurring push and confirm the subscription
SubscribeDataDone(p, ok) ==
  /\ p \in pendingSub /\ p.phase = "data"
  /\ Count(timers, StreamId(p.team, p.chart, p.sock)) < MaxTimers
  /\ pendingSub' = pendingSub \ {p}
  /\ LET x  == StreamId(p.team, p.chart, p.sock)
         to == {p.sock} \cap connected
     IN
     IF ~ok
     THEN /\ emitted' = {StreamEv("error", x, to)}
          /\ UNCHANGED timers
     ELSE /\ timers' = Scheduled(timers, activeStreams, x)
          /\ emitted' = {StreamEv("analytics_data", x, to),
                         StreamEv("analytics_subscribed", x, to)}
  /\ UNCHANGED <<connVars, roomVars, sessVars, pendingJoin, activeStreams,
                 feedVars, inflight, resumed, pushed, now, joinAsked>>

\* ------------------------------------------------ scheduleAnalyticsUpdates
\* the test at the head of the interval callback
StreamLive(strs, x) == x \in DOMAIN strs /\ strs[x].isActive

\* an interval of stream id x fires: it clears itself when the stream is
\* gone or not active, otherwise it suspends in getAnalyticsData
TimerFire(x) ==
  /\ Count(timers, x) > 0
  /\ IF StreamLive(activeStreams, x)
     THEN /\ Count(inflight, x) < MaxInflight
          /\ inflight' = Incr(inflight, x)
          /\ UNCHANGED timers
     ELSE /\ timers' = Decr(timers, x)
          /\ UNCHANGED inflight
  /\ emitted' = {}
  /\ UNCHANGED <<connVars, roomVars, sessVars, pendingJoin, activeStreams,
                 feedVars, pendingSub, resumed, pushed, now, joinAsked>>

\* a write that reaches the client whatever became of its socket
DeliveredAlways(conn, s) == {s}

\* socket.emit of the interval callback: the write reaches the client only
\* while the socket is open, a closed socket drops it
Delivered(conn, s) == {s} \cap conn

\* a callback that pushes an update whether or not the fetch succeeded
PushEventAlways(ok) == "analytics_update"

\* what the interval callback emits: the update in the try block, the
\* error in the catch block
PushEvent(ok) == IF ok THEN "analytics_update" ELSE "analytics_error"

\* the data of a recurring push came back: push it; or the fetch threw:
\* report the error and wait for the next cycle
FetchDone(x, ok) ==
  /\ Count(inflight, x) > 0
  /\ inflight' = Decr(inflight, x)
  /\ emitted' = {StreamEv(PushEvent(ok), x, Delivered(connected, x[4]))}
  /\ pushed' = IF ok THEN pushed \cup {x} ELSE pushed
  /\ UNCHANGED <<connVars, roomVars, sessVars, pendingJoin, activeStreams,
                 feedVars, pendingSub, timers, resumed, now, joinAsked>>

\* ------------------------------------ handleMobileBlur / handleMobileFocus
\* userData.isMobileActive = v, when socketUsers has the socket
MobileFlag(su, s, v) ==
  IF s \in DOMAIN su THEN [su EXCEPT ![s].isMobileActive = v] ELSE su

\* a pause that discards the user's analytics streams instead of flagging them
PausedDropping(strs, u) ==
  [x \in {k \in DOMAIN strs : OwnerUser(strs[k]) # u} |-> strs[x]]

\* pauseMobileSubscriptions: every analytics stream of the user
Paused(strs, u) ==
  [x \in DOMAIN strs |->
     IF OwnerUser(strs[x]) = u /\ strs[x].type = "analytics"
     THEN [strs[x] EXCEPT !.isPaused = TRUE, !.isActive = FALSE]
     ELSE strs[x]]

\* the stream ids resumeMobileSubscriptions touches
ToResume(strs, u) ==
  {x \in DOMAIN strs : OwnerUser(strs[x]) = u /\ strs[x].isPaused}

\* resumeMobileSubscriptions: every paused stream of the user
Resumed(strs, u) ==
  [x \in DOMAIN strs |->
     IF x \in ToResume(strs, u)
     THEN [strs[x] EXCEPT !.isPaused = FALSE, !.isActive = TRUE]
     ELSE strs[x]]

MobileBlur(s) ==
  /\ CanCommand(s)
  /\ socketUsers' = MobileFlag(socketUsers, s, "false")
  /\ activeStreams' = Paused(activeStreams, boundUser[s])
  /\ emitted' = {}
  /\ UNCHANGED <<opened, connected, authPending, boundUser, userSessions, lifeVars,
                 roomVars, sessVars, pendingJoin, feedVars, streamVars, now,
                 joinAsked>>

MobileFocus(s) ==
  /\ CanCommand(s)
  /\ socketUsers' = MobileFlag(socketUsers, s, "true")
  /\ activeStreams' = Resumed(activeStreams, boundUser[s])
  /\ resumed' = resumed \cup ToResume(activeStreams, boundUser[s])
  /\ emitted' = {}
  /\ UNCHANGED <<opened, connected, authPending, boundUser, userSessions, lifeVars,
                 roomVars, sessVars, pendingJoin, feedVars, pendingSub,
                 timers, inflight, pushed, now, joinAsked>>

\* ------------------------------------------------ setupHeartbeat / cleanup
\* the heartbeat interval fires: io.emit('heartbeat') reaches every socket of
\* the namespace
Heartbeat ==
  /\ heartbeatInterval
  /\ emitted' = {Ev("heartbeat", NoRoom, 0, NoUser, connected)}
  /\ UNCHANGED <<connVars, roomVars, sessVars, pendingJoin, activeStreams,
                 feedVars, streamVars, now, joinAsked>>

\* cleanup(): the heartbeat interval is cleared, the five maps are emptied
\* and io.close() closes every socket; the disconnect handlers that run
\* inside io.close() find the maps empty and notify nobody. Stream intervals
\* and suspended handler runs are not touched
Cleanup ==
  /\ ioOpen
  /\ heartbeatInterval' = FALSE
  /\ ioOpen' = FALSE
  /\ activeStreams' = EmptyFcn
  /\ rooms' = EmptyFcn
  /\ userSessions' = EmptyFcn
  /\ socketUsers' = EmptyFcn
  /\ collaborationSessions' = EmptyFcn
  /\ connected' = {}
  /\ teamRoomSockets' = {}
  /\ collabRoomSockets' = {}
  /\ joined' = {}
  /\ emitted' = {}
  /\ UNCHANGED <<opened, authPending, boundUser, nextSession, pendingEnd,
                 pendingJoin, feedVars, streamVars, now, joinAsked,
                 reconnVars, realtimeVars, presenceVars>>

\* ------------------------------------------------------ handleReconnection
\* this.maxReconnectAttempts
maxReconnectAttempts == 5

\* a delay that grows by one second per attempt
BackoffLinear(k) == 1000 * (k + 1)

\* Math.min(1000 * Math.pow(2, this.reconnectAttempts), 30000)
Backoff(k) == IF 1000 * 2^k < 30000 THEN 1000 * 2^k ELSE 30000

\* handleReconnection(): nothing when the attempts are used up or a timer
\* is pending, otherwise one timeout with the backoff delay
HandleReconnection ==
  /\ IF reconnectAttempts >= maxReconnectAttempts \/ reconnectInterval
     THEN UNCHANGED <<reconnectInterval, reconnectTimers>>
     ELSE /\ reconnectInterval' = TRUE
          /\ reconnectTimers' =
               Incr(reconnectTimers, Backoff(reconnectAttempts))
  /\ emitted' = {}
  /\ UNCHANGED <<opened, connected, authPending, boundUser, socketUsers,
                 userSessions, heartbeatInterval, ioOpen, reconnectAttempts,
                 roomVars, sessVars, pendingJoin, activeStreams, feedVars,
                 streamVars, now, joinAsked, realtimeVars,
                 presenceVars>>

\* the delays a reconnect timeout can have
ReconnectDelays == {Backoff(k) : k \in 0..maxReconnectAttempts}

\* the timeout of delay d fires: reconnectAttempts++, clearReconnectInterval
\* and initializeRealtime, which sets the status it already has
ReconnectTimerFire(d) ==
  /\ Count(reconnectTimers, d) > 0
  /\ reconnectTimers' = Decr(reconnectTimers, d)
  /\ reconnectAttempts' = reconnectAttempts + 1
  /\ reconnectInterval' = FALSE
  /\ emitted' = {}
  /\ UNCHANGED <<opened, connected, authPending, boundUser, socketUsers,
                 userSessions, heartbeatInterval, ioOpen, roomVars, sessVars,
                 pendingJoin, activeStreams, feedVars, streamVars, now,
                 joinAsked, realtimeVars,
                 presenceVars>>

\* --------------------------------------- pubsubService / setupRedisIntegration
\* the categories PubSubService publishes per team
PubCategories == {"activity", "checkins", "alerts"}

\* getChannelName: 'team:{teamId}:activity' and the like, as its segments
PubChannelName(cat, t) == <<"team", t, cat>>

\* the patterns setupRedisIntegration would subscribe: 'team_activity:*',
\* 'checkins:*', 'alerts:*', each with the event its callback broadcasts
IntegrationPatterns ==
  {<<"team_activity", "team_activity">>, <<"checkins", "checkin_update">>,
   <<"alerts", "alert_triggered">>}

\* the patterns the service has subscribed: the constructor's call of
\* setupEventHandlers is commented out and nothing else calls it
SubscribedPatterns == {p \in IntegrationPatterns : FALSE}

\* 'prefix:*' matches a channel whose first segment is the prefix
PatternMatches(p, ch) == ch[1] = p[1]

\* channel.split(':')[1]
TeamOfChannel(ch) == ch[2]

\* a message is published for team t in category cat: redis hands it to the
\* callback of every subscribed pattern that matches the channel
Publish(cat, t) ==
  /\ emitted' =
       {Ev("redis publish", NoRoom, 0, NoUser, {})} \cup
       {BroadcastToRoom(<<TeamOfChannel(PubChannelName(cat, t)), "general">>,
                        p[2]) :
          p \in {q \in SubscribedPatterns :
                   PatternMatches(q, PubChannelName(cat, t))}}
  /\ UNCHANGED <<connVars, roomVars, sessVars, pendingJoin, activeStreams,
                 feedVars, streamVars, now, joinAsked>>

\* ------------------------------------------------ subscribeToTeamCheckIns
\* the most check_ins changes the feed of one team delivers
MaxCheckInEvents == 2

\* the type the handler of each postgres change hands to the callback
CheckInType(change) ==
  CASE change = "INSERT" -> "checkin_created"
    [] change = "UPDATE" -> "checkin_updated"
    [] OTHER -> "checkin_deleted"

\* callback({type, ...}) of the channel: the one subscribeToTeamEvents passed
\* broadcasts team_checkin_update to its room, the REST route's only logs
CallbackCasts(casts, t, cb, type) ==
  IF cb = NoRoom THEN casts ELSE [casts EXCEPT ![t] = Append(@, type)]

CallbackEmits(cb) ==
  IF cb = NoRoom THEN {}
  ELSE {BroadcastToRoom(cb, FeedEventName("checkins"))}

\* the channel of team t delivers the INSERT of a row. enrichCheckInPayload
\* returns at once for an anonymous check-in, and its .then runs before any
\* other handler; otherwise it is suspended in the profiles query, holding
\* the callback the channel was created with. The publishCheckInEvent the
\* .then starts publishes in a later step (Publish)
CheckInInsert(t, anonymous) ==
  /\ ChannelKnown(activeChannels, "checkins", t)
  /\ checkinFeed[t] = <<>>
  /\ checkinFeed' = [checkinFeed EXCEPT ![t] = Append(@, "INSERT")]
  /\ IF anonymous
     THEN /\ checkinCasts' =
               CallbackCasts(checkinCasts, t,
                             activeChannels[<<"checkins", t>>].callback,
                             CheckInType("INSERT"))
          /\ emitted' =
               CallbackEmits(activeChannels[<<"checkins", t>>].callback)
          /\ UNCHANGED enriching
     ELSE /\ enriching' = enriching \cup
               {[teamId |-> t,
                 callback |-> activeChannels[<<"checkins", t>>].callback]}
          /\ emitted' = {}
          /\ UNCHANGED checkinCasts
  /\ UNCHANGED <<opened, connected, authPending, boundUser, socketUsers,
                 userSessions, heartbeatInterval, ioOpen, reconnVars, presenceVars,
                 roomVars, sessVars, pendingJoin, activeStreams, feedVars,
                 streamVars, now, joinAsked>>

\* the profiles query of a suspended insert handler returns, with a row, no
\* row or an error: .then (or .catch) calls the callback with checkin_created
EnrichDone(e) ==
  /\ e \in enriching
  /\ enriching' = enriching \ {e}
  /\ checkinCasts' = CallbackCasts(checkinCasts, e.teamId, e.callback,
                                   CheckInType("INSERT"))
  /\ emitted' = CallbackEmits(e.callback)
  /\ UNCHANGED <<opened, connected, authPending, boundUser, socketUsers,
                 userSessions, heartbeatInterval, ioOpen, reconnVars, presenceVars,
                 roomVars, sessVars, pendingJoin, activeStreams, feedVars,
                 streamVars, now, joinAsked, checkinFeed>>

\* the channel of team t delivers an UPDATE of the row it delivered the
\* INSERT of: the handler calls the callback at once
CheckInUpdate(t) ==
  /\ ChannelKnown(activeChannels, "checkins", t)
  /\ checkinFeed[t] # <<>>
  /\ Len(checkinFeed[t]) < MaxCheckInEvents
  /\ checkinFeed' = [checkinFeed EXCEPT ![t] = Append(@, "UPDATE")]
  /\ checkinCasts' =
       CallbackCasts(checkinCasts, t,
                     activeChannels[<<"checkins", t>>].callback,
                     CheckInType("UPDATE"))
  /\ emitted' = CallbackEmits(activeChannels[<<"checkins", t>>].callback)
  /\ UNCHANGED <<opened, connected, authPending, boundUser, socketUsers,
                 userSessions, heartbeatInterval, ioOpen, reconnVars, presenceVars,
                 roomVars, sessVars, pendingJoin, activeStreams, feedVars,
                 streamVars, now, joinAsked, enriching>>

\* ------------------------------------------------ subscribeToTeamPresence
\* the statuses the subscribe callback of a channel is called with
SubscribeStatuses == {"SUBSCRIBED", "CHANNEL_ERROR"}

\* subscribeToTeamPresence(teamId, userId, ...): the channel of the team is
\* created with the presence key of the user that asks first; a call that
\* finds a channel for the team returns it and does nothing else
PresenceChannelsAfterJoin(chs, t, u) ==
  IF t \in DOMAIN chs THEN chs
  ELSE Put(chs, t, [key |-> u, status |-> "joining"])

\* POST /teams/:teamId/presence/join after its membership lookup returned
\* (ok: a row came back): 403 without a row, else the subscription and the
\* success answer
PresenceJoin(u, t, ok) ==
  /\ ok => IsMember(u, t)
  /\ IF ok
     THEN /\ presenceChannels' =
               PresenceChannelsAfterJoin(presenceChannels, t, u)
          /\ presenceJoined' = [presenceJoined EXCEPT ![t] = @ \cup {u}]
          /\ emitted' = {Response("http 200", 0, u)}
     ELSE /\ UNCHANGED <<presenceChannels, presenceJoined>>
          /\ emitted' = {Response("http 403", 0, u)}
  /\ UNCHANGED <<opened, connected, authPending, boundUser, socketUsers,
                 userSessions, heartbeatInterval, ioOpen, reconnVars,
                 realtimeVars, presenceRoster, roomVars, sessVars,
                 pendingJoin, activeStreams, feedVars, streamVars, now,
                 joinAsked>>

\* the subscribe callback of the presence channel of team t runs with a
\* status: on SUBSCRIBED presenceChannel.track() enters the presence of the
\* user the channel was created for, under the key of the channel
PresenceSubscribed(t, status) ==
  /\ t \in DOMAIN presenceChannels
  /\ presenceChannels[t].status = "joining"
  /\ presenceChannels' = [presenceChannels EXCEPT ![t].status = status]
  /\ presenceRoster' =
       IF status = "SUBSCRIBED"
       THEN [presenceRoster EXCEPT ![t] = @ \cup {presenceChannels[t].key}]
       ELSE presenceRoster
  /\ emitted' = {}
  /\ UNCHANGED <<opened, connected, authPending, boundUser, socketUsers,
                 userSessions, heartbeatInterval, ioOpen, reconnVars,
                 realtimeVars, presenceJoined, roomVars, sessVars,
                 pendingJoin, activeStreams, feedVars, streamVars, now,
                 joinAsked>>

\* POST /teams/:teamId/presence/leave by any authenticated user u:
\* realtimeService.unsubscribe('presence_team_' + teamId) unsubscribes and
\* deletes the channel of the team, whoever it was created for
PresenceLeave(u, t) ==
  /\ presenceChannels' = Remove(presenceChannels, t)
  /\ presenceRoster' = [presenceRoster EXCEPT ![t] = {}]
  /\ presenceJoined' = [presenceJoined EXCEPT ![t] = @ \ {u}]
  /\ emitted' = {Response("http 200", 0, u)}
  /\ UNCHANGED <<opened, connected, authPending, boundUser, socketUsers,
                 userSessions, heartbeatInterval, ioOpen, reconnVars,
                 realtimeVars, roomVars, sessVars, pendingJoin,
                 activeStreams, feedVars, streamVars, now, joinAsked>>

\* ---------------------------------------------------------------- getStats
\* the figures GET /stats answers with (uptime and timestamp left out)
GetStats ==
  [connectedClients |-> Cardinality(connected),
   activeRooms |-> Cardinality(DOMAIN rooms),
   activeStreams |-> Cardinality(DOMAIN activeStreams),
   collaborationSessions |-> Cardinality(DOMAIN collaborationSessions),
   userSessions |-> Cardinality(DOMAIN userSessions)]

\* ----------------------------------------------------- setupSocketHandlers
\* what a listener leaves behind whose handler method the class does not
\* define: calling it throws a TypeError before anything is read or written
Thrown(x) == StreamEv("TypeError", x, {})

\* unsubscribe_analytics arrives for stream id x: the listener calls
\* this.handleUnsubscribeAnalytics, which is not defined
UnsubscribeAnalytics(s, x) ==
  /\ CanCommand(s)
  /\ emitted' = {Thrown(x)}
  /\ UNCHANGED <<connVars, roomVars, sessVars, pendingJoin, activeStreams,
                 feedVars, streamVars, now, joinAsked>>

\* leave_team_room arrives for room <<t, ty>>: the listener calls
\* this.handleLeaveTeamRoom, which is not defined
LeaveTeamRoom(s, t, ty) ==
  /\ CanCommand(s)
  /\ emitted' = {Ev("TypeError", <<t, ty>>, 0, boundUser[s], {})}
  /\ UNCHANGED <<connVars, roomVars, sessVars, pendingJoin, activeStreams,
                 feedVars, streamVars, now, joinAsked>>

\* a client asks to join session sid: setupSocketHandlers registers no
\* listener for any session-join command, so the command is dropped and
\* only the record of the request changes
JoinCollaborationIgnored(s, sid) ==
  /\ CanCommand(s)
  /\ sid \in DOMAIN collaborationSessions
  /\ collaborationSessions[sid].status = "active"
  /\ <<boundUser[s], sid>> \notin joinAsked
  /\ joinAsked' = joinAsked \cup {<<boundUser[s], sid>>}
  /\ emitted' = {}
  /\ UNCHANGED <<connVars, roomVars, sessVars, pendingJoin, activeStreams,
                 feedVars, streamVars, now>>

\* ------------------------------------------------------- specification
\* the credential each socket id carries: two sockets of u1 (one user
\* connecting twice), then other users, then refused credentials
TokenOf(s) ==
  CASE s \in {1, 2} -> "u1"
    [] s = 3 -> "u2"
    [] s = 4 -> "missing"
    [] OTHER -> "bad"

\* the join runs that can be suspended in the team_members lookup
PendingJoins == [sock : SocketIds, team : Teams, rtype : RoomTypes]

\* connections and rooms
Next ==
  \/ \E s \in SocketIds : Connect(s, TokenOf(s))
  \/ \E s \in SocketIds : AuthDone(s)
  \/ \E s \in SocketIds : ClientDisconnect(s)
  \/ \E s \in SocketIds, t \in JoinTeams, ty \in RoomTypes :
        JoinTeamRoom(s, t, ty)
  \/ \E p \in PendingJoins, ok \in BOOLEAN : JoinCheckDone(p, ok)

Spec == Init /\ [][Next]_vars

\* the sockets of the session specification
SessionSockets == 1..MaxSessionSockets

\* the credential each of them carries: the devices of one user, who starts
\* and drives the sessions; any further connection comes without a token
SessionTokenOf(s) == IF s <= 2 THEN "u1" ELSE "missing"

\* connections and collaboration sessions, ended by any REST caller
NextSession ==
  \/ \E s \in SessionSockets : Connect(s, SessionTokenOf(s))
  \/ \E s \in SessionSockets : AuthDone(s)
  \/ \E s \in SessionSockets : ClientDisconnect(s)
  \/ \E s \in SessionSockets, t \in Teams : StartCollaboration(s, t)
  \/ \E s \in SessionSockets, sid \in SessionIds : CollaborationEvent(s, sid)
  \/ \E u \in Users, sid \in SessionIds : EndSession(u, sid)
  \/ \E p \in Users \X SessionIds : EndSessionCheckDone(p)
  \/ Tick

SpecSession == Init /\ [][NextSession]_vars

\* the sessions of one user and the end requests of every user
NextEnd ==
  \/ \E s \in SessionSockets : Connect(s, SessionTokenOf(s))
  \/ \E s \in SessionSockets : AuthDone(s)
  \/ \E s \in SessionSockets : ClientDisconnect(s)
  \/ \E s \in SessionSockets, t \in Teams : StartCollaboration(s, t)
  \/ \E u \in Users, sid \in SessionIds : EndSession(u, sid)
  \/ \E p \in Users \X SessionIds : EndSessionCheckDone(p)

SpecEnd == Init /\ [][NextEnd]_vars

\* connections of several users and the sessions they ask to join
NextJoin ==
  \/ \E s \in SocketIds : Connect(s, TokenOf(s))
  \/ \E s \in SocketIds : AuthDone(s)
  \/ \E s \in SocketIds : ClientDisconnect(s)
  \/ \E s \in SocketIds, t \in Teams : StartCollaboration(s, t)
  \/ \E s \in SocketIds, sid \in SessionIds : CollaborationEvent(s, sid)
  \/ \E s \in SocketIds, sid \in SessionIds : JoinCollaborationIgnored(s, sid)

SpecJoin == Init /\ [][NextJoin]_vars

\* connections and analytics streams
StreamSockets == 1..MaxStreamSockets

\* the credential each socket id carries in the stream specification: one
\* device each of u1 and u2, any further connection with a token the auth
\* provider rejects
StreamTokenOf(s) == IF s = 1 THEN "u1" ELSE IF s = 2 THEN "u2" ELSE "bad"

StreamIds == {StreamId(t, c, s) : t \in Teams, c \in ChartTypes,
                                 s \in StreamSockets}

\* the subscribe runs that can be suspended in an await
PendingSubs == [sock : StreamSockets, team : Teams, chart : ChartTypes,
                phase : {"member", "data"}]

NextStream ==
  \/ \E s \in StreamSockets : Connect(s, StreamTokenOf(s))
  \/ \E s \in StreamSockets : AuthDone(s)
  \/ \E s \in StreamSockets : ClientDisconnect(s)
  \/ \E s \in StreamSockets, t \in Teams, c \in ChartTypes :
        SubscribeAnalytics(s, t, c)
  \/ \E p \in PendingSubs, ok \in BOOLEAN : SubscribeCheckDone(p, ok)
  \/ \E p \in PendingSubs, ok \in BOOLEAN : SubscribeDataDone(p, ok)
  \/ \E x \in StreamIds : TimerFire(x)
  \/ \E x \in StreamIds, ok \in BOOLEAN : FetchDone(x, ok)
  \/ \E s \in StreamSockets : MobileBlur(s)
  \/ \E s \in StreamSockets : MobileFocus(s)

SpecStream == Init /\ [][NextStream]_vars

\* the scheduling the runtime guarantees: a live interval keeps firing, a
\* lookup or fetch in flight returns, and the data source does not fail
\* for ever
StreamFairness ==
  /\ \A x \in StreamIds : WF_vars(TimerFire(x))
  /\ \A x \in StreamIds : SF_vars(FetchDone(x, TRUE))
  /\ \A x \in StreamIds : WF_vars(\E ok \in BOOLEAN : FetchDone(x, ok))
  /\ \A p \in PendingSubs :
        WF_vars(\E ok \in BOOLEAN : SubscribeCheckDone(p, ok))
  /\ \A p \in PendingSubs :
        WF_vars(\E ok \in BOOLEAN : SubscribeDataDone(p, ok))

SpecStreamFair == Init /\ [][NextStream]_vars /\ StreamFairness

\* connections, analytics subscriptions and the mobile pause and resume
NextPause ==
  \/ \E s \in StreamSockets : Connect(s, StreamTokenOf(s))
  \/ \E s \in StreamSockets : AuthDone(s)
  \/ \E s \in StreamSockets : ClientDisconnect(s)
  \/ \E s \in StreamSockets, t \in Teams, c \in ChartTypes :
        SubscribeAnalytics(s, t, c)
  \/ \E p \in PendingSubs, ok \in BOOLEAN : SubscribeCheckDone(p, ok)
  \/ \E p \in PendingSubs, ok \in BOOLEAN : SubscribeDataDone(p, ok)
  \/ \E s \in StreamSockets : MobileBlur(s)
  \/ \E s \in StreamSockets : MobileFocus(s)

SpecPause == Init /\ [][NextPause]_vars

\* connections, team rooms and the REST routes on the feed channels
NextFeed ==
  \/ \E s \in StreamSockets : Connect(s, StreamTokenOf(s))
  \/ \E s \in StreamSockets : AuthDone(s)
  \/ \E s \in StreamSockets : ClientDisconnect(s)
  \/ \E s \in StreamSockets, t \in JoinTeams, ty \in RoomTypes :
        JoinTeamRoom(s, t, ty)
  \/ \E p \in PendingJoins, ok \in BOOLEAN : JoinCheckDone(p, ok)
  \/ \E u \in Users, cat \in FeedCategories, t \in Teams, ok \in BOOLEAN :
        RestSubscribe(u, cat, t, ok)
  \/ \E t \in Teams : RestUnsubscribeTeam(t)

SpecFeed == Init /\ [][NextFeed]_vars

\* connections, team rooms and what is broadcast to them
NextBroadcast ==
  \/ \E s \in StreamSockets : Connect(s, StreamTokenOf(s))
  \/ \E s \in StreamSockets : AuthDone(s)
  \/ \E s \in StreamSockets : ClientDisconnect(s)
  \/ \E s \in StreamSockets, t \in JoinTeams, ty \in RoomTypes :
        JoinTeamRoom(s, t, ty)
  \/ \E p \in PendingJoins, ok \in BOOLEAN : JoinCheckDone(p, ok)
  \/ \E s \in StreamSockets, t \in Teams : StartCollaboration(s, t)
  \/ \E cat \in FeedCategories, t \in Teams : FeedEvent(cat, t)

SpecBroadcast == Init /\ [][NextBroadcast]_vars

\* the devices of one user with rooms, sessions and analytics streams to
\* tear down
NextCascade ==
  \/ \E s \in SessionSockets : Connect(s, SessionTokenOf(s))
  \/ \E s \in SessionSockets : AuthDone(s)
  \/ \E s \in SessionSockets : ClientDisconnect(s)
  \/ \E s \in SessionSockets, t \in Teams, ty \in RoomTypes :
        JoinTeamRoom(s, t, ty)
  \/ \E p \in PendingJoins, ok \in BOOLEAN : JoinCheckDone(p, ok)
  \/ \E s \in SessionSockets, t \in Teams : StartCollaboration(s, t)
  \/ \E s \in SessionSockets, t \in Teams, c \in ChartTypes :
        SubscribeAnalytics(s, t, c)
  \/ \E p \in PendingSubs, ok \in BOOLEAN : SubscribeCheckDone(p, ok)

SpecCascade == Init /\ [][NextCascade]_vars

\* the devices of one user, their analytics streams with the recurring
\* pushes, the heartbeat and the shutdown of the service
NextTeardown ==
  \/ \E s \in SessionSockets : Connect(s, SessionTokenOf(s))
  \/ \E s \in SessionSockets : AuthDone(s)
  \/ \E s \in SessionSockets : ClientDisconnect(s)
  \/ \E s \in SessionSockets, t \in Teams, c \in ChartTypes :
        SubscribeAnalytics(s, t, c)
  \/ \E p \in PendingSubs, ok \in BOOLEAN : SubscribeCheckDone(p, ok)
  \/ \E p \in PendingSubs, ok \in BOOLEAN : SubscribeDataDone(p, ok)
  \/ \E x \in StreamIds : TimerFire(x)
  \/ \E x \in StreamIds, ok \in BOOLEAN : FetchDone(x, ok)
  \/ Heartbeat
  \/ Cleanup

SpecTeardown == Init /\ [][NextTeardown]_vars

\* the credential each socket id carries where authorization is decided: a
\* user who belongs to no team, a member, then refused credentials
OutsiderTokenOf(s) == IF s = 1 THEN "u3" ELSE IF s = 2 THEN "u1" ELSE "bad"

\* a member and a user of no team, with the general rooms, sessions and
\* analytics subscriptions
NextOutsider ==
  \/ \E s \in StreamSockets : Connect(s, OutsiderTokenOf(s))
  \/ \E s \in StreamSockets : AuthDone(s)
  \/ \E s \in StreamSockets : ClientDisconnect(s)
  \/ \E s \in StreamSockets, t \in Teams : JoinTeamRoom(s, t, "general")
  \/ \E p \in PendingJoins, ok \in BOOLEAN : JoinCheckDone(p, ok)
  \/ \E s \in StreamSockets, t \in Teams, c \in ChartTypes :
        SubscribeAnalytics(s, t, c)
  \/ \E p \in PendingSubs, ok \in BOOLEAN : SubscribeCheckDone(p, ok)
  \/ \E s \in StreamSockets, t \in Teams : StartCollaboration(s, t)

SpecOutsider == Init /\ [][NextOutsider]_vars

\* commands whose payload may lack the teamId
NextPayload ==
  \/ \E s \in StreamSockets : Connect(s, StreamTokenOf(s))
  \/ \E s \in StreamSockets : AuthDone(s)
  \/ \E s \in StreamSockets : ClientDisconnect(s)
  \/ \E s \in StreamSockets, t \in JoinTeams, ty \in RoomTypes :
        JoinTeamRoom(s, t, ty)
  \/ \E p \in PendingJoins, ok \in BOOLEAN : JoinCheckDone(p, ok)
  \/ \E s \in StreamSockets, t \in JoinTeams : StartCollaboration(s, t)
  \/ \E s \in StreamSockets, sid \in SessionIds : CollaborationEvent(s, sid)

SpecPayload == Init /\ [][NextPayload]_vars

\* the credential each socket id carries at the gate: one user, a token the
\* auth provider rejects, no token at all
GateTokenOf(s) ==
  IF s = 1 THEN "u1" ELSE IF s = 3 THEN "missing" ELSE "bad"

\* handshakes with good and refused credentials, and every command a client
\* can send
NextGate ==
  \/ \E s \in SocketIds : Connect(s, GateTokenOf(s))
  \/ \E s \in SocketIds : AuthDone(s)
  \/ \E s \in SocketIds : ClientDisconnect(s)
  \/ \E s \in SocketIds, t \in Teams, ty \in RoomTypes : JoinTeamRoom(s, t, ty)
  \/ \E p \in PendingJoins, ok \in BOOLEAN : JoinCheckDone(p, ok)
  \/ \E s \in SocketIds, t \in Teams, c \in ChartTypes :
        SubscribeAnalytics(s, t, c)
  \/ \E p \in PendingSubs, ok \in BOOLEAN : SubscribeCheckDone(p, ok)
  \/ \E s \in SocketIds, t \in Teams : StartCollaboration(s, t)
  \/ \E s \in SocketIds, sid \in SessionIds : CollaborationEvent(s, sid)
  \/ \E s \in SocketIds : MobileBlur(s)

SpecGate == Init /\ [][NextGate]_vars

\* analytics streams with their recurring pushes and the explicit unsubscribe
NextUnsubscribe ==
  \/ \E s \in StreamSockets : Connect(s, StreamTokenOf(s))
  \/ \E s \in StreamSockets : AuthDone(s)
  \/ \E s \in StreamSockets : ClientDisconnect(s)
  \/ \E s \in StreamSockets, t \in Teams, c \in ChartTypes :
        SubscribeAnalytics(s, t, c)
  \/ \E p \in PendingSubs, ok \in BOOLEAN : SubscribeCheckDone(p, ok)
  \/ \E p \in PendingSubs, ok \in BOOLEAN : SubscribeDataDone(p, ok)
  \/ \E x \in StreamIds : TimerFire(x)
  \/ \E x \in StreamIds, ok \in BOOLEAN : FetchDone(x, ok)
  \/ \E s \in StreamSockets, x \in StreamIds : UnsubscribeAnalytics(s, x)

SpecUnsubscribe == Init /\ [][NextUnsubscribe]_vars

\* team rooms and the explicit leave
NextLeave ==
  \/ \E s \in StreamSockets : Connect(s, StreamTokenOf(s))
  \/ \E s \in StreamSockets : AuthDone(s)
  \/ \E s \in StreamSockets : ClientDisconnect(s)
  \/ \E s \in StreamSockets, t \in Teams, ty \in RoomTypes :
        JoinTeamRoom(s, t, ty)
  \/ \E p \in PendingJoins, ok \in BOOLEAN : JoinCheckDone(p, ok)
  \/ \E s \in StreamSockets, t \in Teams, ty \in RoomTypes :
        LeaveTeamRoom(s, t, ty)

SpecLeave == Init /\ [][NextLeave]_vars

\* team rooms and the messages published for the teams
NextPublish ==
  \/ \E s \in StreamSockets : Connect(s, StreamTokenOf(s))
  \/ \E s \in StreamSockets : AuthDone(s)
  \/ \E s \in StreamSockets : ClientDisconnect(s)
  \/ \E s \in StreamSockets, t \in Teams, ty \in RoomTypes :
        JoinTeamRoom(s, t, ty)
  \/ \E p \in PendingJoins, ok \in BOOLEAN : JoinCheckDone(p, ok)
  \/ \E cat \in PubCategories, t \in Teams : Publish(cat, t)

SpecPublish == Init /\ [][NextPublish]_vars

\* the realtime service: feed subscriptions through one client's joins and
\* through the REST routes, feed deliveries and reconnection
NextReconnect ==
  \/ \E s \in {1} : Connect(s, StreamTokenOf(s))
  \/ \E s \in {1} : AuthDone(s)
  \/ \E s \in {1} : ClientDisconnect(s)
  \/ \E s \in {1}, t \in Teams : JoinTeamRoom(s, t, "general")
  \/ \E p \in PendingJoins, ok \in BOOLEAN : JoinCheckDone(p, ok)
  \/ \E u \in Users, cat \in FeedCategories, t \in Teams, ok \in BOOLEAN :
        RestSubscribe(u, cat, t, ok)
  \/ \E t \in Teams : RestUnsubscribeTeam(t)
  \/ \E cat \in FeedCategories, t \in Teams : FeedEvent(cat, t)
  \/ HandleReconnection
  \/ \E d \in ReconnectDelays : ReconnectTimerFire(d)

SpecReconnect == Init /\ [][NextReconnect]_vars

\* the check-ins feed of a team one client has joined: the changes the
\* channel delivers, the enrichment of inserts and the publishes
NextCheckIns ==
  \/ \E s \in {1} : Connect(s, StreamTokenOf(s))
  \/ \E s \in {1} : AuthDone(s)
  \/ \E s \in {1} : ClientDisconnect(s)
  \/ \E s \in {1}, t \in Teams, ty \in RoomTypes : JoinTeamRoom(s, t, ty)
  \/ \E p \in PendingJoins, ok \in BOOLEAN : JoinCheckDone(p, ok)
  \/ \E t \in Teams, anonymous \in BOOLEAN : CheckInInsert(t, anonymous)
  \/ \E e \in enriching : EnrichDone(e)
  \/ \E t \in Teams : CheckInUpdate(t)
  \/ \E t \in Teams : Publish("checkins", t)

SpecCheckIns == Init /\ [][NextCheckIns]_vars

\* the REST routes of the realtime service: presence join and leave, feed
\* subscriptions and the unsubscribe of a team
NextPresence ==
  \/ \E u \in Users, t \in Teams, ok \in BOOLEAN : PresenceJoin(u, t, ok)
  \/ \E t \in Teams, status \in SubscribeStatuses :
        PresenceSubscribed(t, status)
  \/ \E u \in Users, t \in Teams : PresenceLeave(u, t)
  \/ \E u \in Users, cat \in FeedCategories, t \in Teams, ok \in BOOLEAN :
        RestSubscribe(u, cat, t, ok)
  \/ \E t \in Teams : RestUnsubscribeTeam(t)

SpecPresence == Init /\ [][NextPresence]_vars

\* ================================================================ claims
\* the sockets socketUsers registers for user u
SocketsOf(u) == {s \in DOMAIN socketUsers : socketUsers[s].id = u}

\* C1: after any interleaving of handshakes and disconnects, socketUsers
\* holds at most one entry per user id.
C1_OneConnectionPerUser ==
  \A u \in Users : Cardinality(SocketsOf(u)) <= 1

\* sockets whose disconnect handleDisconnection has handled
Handled == {s \in DOMAIN boundUser : s \notin connected
                                     /\ s \notin DOMAIN socketUsers}

\* C2: once the disconnect of a connection has been handled, no stream
\* record is owned by its socket id and, as long as its user has not
\* registered again, its user id is in no room's member set and in no
\* session's participant set.
C2_NoReferencesAfterDisconnect ==
  \A s \in Handled :
    /\ \A x \in DOMAIN activeStreams : OwnerSocket(activeStreams[x]) # s
    /\ SocketsOf(boundUser[s]) = {} =>
         /\ \A r \in DOMAIN rooms : boundUser[s] \notin rooms[r].members
         /\ \A sid \in DOMAIN collaborationSessions :
              boundUser[s] \notin collaborationSessions[sid].participants

\* every room id a join can name
RoomIds == Teams \X RoomTypes

MembersOf(r) == IF r \in DOMAIN rooms THEN rooms[r].members ELSE {}

\* C3: in every reachable state a room record is in the registry if and
\* only if its member set is non-empty (first join creates it, the
\* disconnect of its last member deletes it).
C3_RoomIffMembers ==
  /\ DOMAIN rooms \subseteq RoomIds
  /\ \A r \in RoomIds : (r \in DOMAIN rooms) <=> (MembersOf(r) # {})

\* a room has been joined (its team_events stream exists) and the registry
\* is empty again: the last member's disconnect deleted the room
C3_Witness ==
  /\ DOMAIN rooms = {}
  /\ \E x \in DOMAIN activeStreams : activeStreams[x].type = "team_events"
  /\ Handled # {}

\* C4: once a session is ended, a session event for it is relayed to no one
\* and changes no field of the session (lastActivity included).
C4_NoEventAfterEnded ==
  [][\A sid \in DOMAIN collaborationSessions :
       collaborationSessions[sid].status = "ended" =>
         /\ \A e \in emitted' :
              (e.ev = "collaboration_event" /\ e.sid = sid) => e.to = {}
         /\ collaborationSessions'[sid].lastActivity =
              collaborationSessions[sid].lastActivity]_vars

\* C5: a session that has been ended is never active again, whatever start,
\* event, end and disconnect operations follow.
C5_StatusMonotonic ==
  [][\A sid \in DOMAIN collaborationSessions :
       collaborationSessions[sid].status = "ended" =>
         /\ sid \in DOMAIN collaborationSessions'
         /\ collaborationSessions'[sid].status = "ended"]_vars

\* an ended session on which a session event was processed after its end
C5_Witness ==
  \E sid \in DOMAIN collaborationSessions :
    /\ collaborationSessions[sid].status = "ended"
    /\ collaborationSessions[sid].lastActivity >
         collaborationSessions[sid].endedAt

\* C6: ending an already-ended session is a no-op: endedAt and endedBy keep
\* the values of the first termination and no further collaboration_ended
\* event is emitted, for an explicit end and for a later disconnect alike.
C6_EndIdempotent ==
  [][\A sid \in DOMAIN collaborationSessions :
       collaborationSessions[sid].status = "ended" =>
         /\ collaborationSessions'[sid].endedAt =
              collaborationSessions[sid].endedAt
         /\ collaborationSessions'[sid].endedBy =
              collaborationSessions[sid].endedBy
         /\ \A e \in emitted' \ emitted :
              ~(e.ev = "collaboration_ended" /\ e.sid = sid)]_vars

\* the registered, connected sockets of user u
LiveSocketsOf(u) == SocketsOf(u) \cap connected

\* C7: when the creator of a session that other users have joined
\* disconnects, the session ends and each of those users receives exactly
\* one collaboration_ended event whose endedBy is the creator.
C7_JoinedReceiveEnded ==
  \A e \in emitted :
    (/\ e.ev = "collaboration_participant_left"
     /\ e.by = collaborationSessions[e.sid].createdBy) =>
       /\ collaborationSessions[e.sid].status = "ended"
       /\ \A p \in joinAsked :
            (p[2] = e.sid /\ p[1] # e.by) =>
              \A s \in LiveSocketsOf(p[1]) :
                Cardinality({d \in emitted :
                               /\ d.ev = "collaboration_ended"
                               /\ d.sid = e.sid /\ d.by = e.by
                               /\ s \in d.to}) = 1

\* C8: the disconnect of the creator of an active session, or one that
\* empties its participant set, leaves the record with status ended, endedAt
\* set and endedBy the disconnecting user; any other disconnect leaves the
\* session active.
C8_AutoTermination ==
  [][\A sid \in DOMAIN collaborationSessions :
       \A e \in emitted' :
         (/\ e.ev = "collaboration_participant_left" /\ e.sid = sid
          /\ collaborationSessions[sid].status = "active") =>
            IF \/ e.by = collaborationSessions[sid].createdBy
               \/ collaborationSessions[sid].participants \ {e.by} = {}
            THEN /\ collaborationSessions'[sid].status = "ended"
                 /\ collaborationSessions'[sid].endedAt # NoTime
                 /\ collaborationSessions'[sid].endedBy = e.by
            ELSE collaborationSessions'[sid].status = "active"]_vars

Deliverable(x) == StreamLive(activeStreams, x) /\ x[4] \in connected

\* C10: a stream that received scheduled updates and was paused and resumed
\* gets scheduled updates again under the same stream id, for as long as it
\* stays subscribed and active and its owner stays connected.
C10_ResumedEventuallyPushed ==
  \A x \in StreamIds :
    [](  (x \in resumed /\ x \in pushed /\ Deliverable(x))
      => <>(\/ \E e \in emitted : e.ev = "analytics_update" /\ e.stream = x
            \/ ~Deliverable(x)))

\* the fields of a stream record that identify the subscription
Identity(st) ==
  IF st.type = "analytics"
  THEN <<st.type, st.teamId, st.chartType, st.socketId, st.userId>>
  ELSE <<st.type, st.teamId, st.roomId>>

\* C11: a mobile pause or resume only toggles the isPaused and isActive
\* flags: the set of stream ids and the identity of every record stay as they
\* are, the records of every other user are untouched, and nothing is
\* emitted.
C11_PauseResumeFrame ==
  [][\A s \in StreamSockets :
       (MobileBlur(s) \/ MobileFocus(s)) =>
         /\ DOMAIN activeStreams' = DOMAIN activeStreams
         /\ \A x \in DOMAIN activeStreams :
              /\ Identity(activeStreams'[x]) = Identity(activeStreams[x])
              /\ OwnerUser(activeStreams[x]) # boundUser[s] =>
                   activeStreams'[x] = activeStreams[x]
         /\ emitted' = {}
         /\ UNCHANGED <<timers, inflight, pendingSub>>]_vars

\* a stream that was paused and resumed, beside a paused stream of another
\* user
C11_Witness ==
  \E x \in resumed, y \in DOMAIN activeStreams :
    /\ x \in DOMAIN activeStreams
    /\ ~activeStreams[x].isPaused /\ activeStreams[x].isActive
    /\ OwnerUser(activeStreams[y]) \notin {NoUser, OwnerUser(activeStreams[x])}
    /\ activeStreams[y].isPaused

\* C12: for every team and every event category at most one upstream feed
\* channel is subscribed at any time, whatever rooms are joined, by whom and
\* how often.
C12_OneChannelPerFeed ==
  \A cat \in FeedCategories, t \in Teams : Count(upstream, <<cat, t>>) <= 1

\* both rooms of a team are joined, one of them by two users, and each of
\* the team's three feeds has its channel
C12_Witness ==
  \E t \in Teams :
    /\ \A ty \in RoomTypes : <<t, ty>> \in DOMAIN rooms
    /\ \E ty \in RoomTypes : Cardinality(rooms[<<t, ty>>].members) >= 2
    /\ \A cat \in FeedCategories : Count(upstream, <<cat, t>>) = 1

\* does team t have a room in the registry
HasRoom(t) == \E ty \in RoomTypes : <<t, ty>> \in DOMAIN rooms

\* C13: a team's feed channels and its team_events stream record exist
\* exactly as long as the team has a room with members: they are gone once
\* the last member of the last room has disconnected, and not before.
C13_FeedsFollowInterest ==
  \A t \in Teams :
    IF HasRoom(t)
    THEN /\ HasTeamEvents(activeStreams, t)
         /\ \A cat \in FeedCategories : Count(upstream, <<cat, t>>) = 1
    ELSE /\ ~HasTeamEvents(activeStreams, t)
         /\ \A cat \in FeedCategories : Count(upstream, <<cat, t>>) = 0

\* the events that are sent to a team room as a whole
RoomBroadcasts ==
  {"user_joined_room", "user_left_room", "collaboration_started",
   "team_checkin_update", "team_insight_update", "dashboard_update"}

\* the connections that are members of room r: their join of r was granted
\* and they have not disconnected since
RoomConnections(r) == {s \in connected : <<s, r>> \in joined}

\* C14: whatever is broadcast to a team room reaches only connections that
\* are members of that very room at that moment; a connection that joined
\* only the analytics room of a team gets nothing sent to its general room.
C14_BroadcastOnlyToMembers ==
  \A e \in emitted :
    (e.ev \in RoomBroadcasts /\ e.room \in RoomIds) =>
      e.to \subseteq RoomConnections(e.room)

\* a broadcast to the general room reaches a member while another
\* connection, member of the analytics room only, is left out
C14_Witness ==
  \E e \in emitted, t \in Teams, s \in connected :
    /\ e.ev \in RoomBroadcasts /\ e.room = <<t, "general">>
    /\ e.to # {} /\ s \notin e.to
    /\ <<s, <<t, "analytics">>>> \in joined
    /\ <<s, <<t, "general">>>> \notin joined

\* the granted joins of a user who is already in the member set of the room
Rejoins ==
  {p \in PendingJoins :
     /\ p \in pendingJoin
     /\ RoomId(p.team, p.rtype) \in DOMAIN rooms
     /\ boundUser[p.sock] \in rooms[RoomId(p.team, p.rtype)].members}

\* C15: a join of a room by a user who is already a member leaves the
\* room's member set, and so its member count, as it was.
C15_RejoinKeepsMembers ==
  [][\A p \in Rejoins :
       JoinCheckDone(p, TRUE) =>
         rooms'[RoomId(p.team, p.rtype)].members =
           rooms[RoomId(p.team, p.rtype)].members]_vars

\* a room with two members that one of them joined twice: the joins of two
\* sockets of one user were both granted after the first socket had closed
\* (it entered the socket.io room when already out of the namespace), so
\* the later grant found the user in the member set
C15_Witness ==
  \E r \in DOMAIN rooms, s1 \in DOMAIN boundUser, s2 \in DOMAIN boundUser :
    /\ s1 # s2 /\ boundUser[s1] = boundUser[s2]
    /\ s1 \notin connected /\ s2 \in connected
    /\ <<s1, r>> \in teamRoomSockets /\ <<s2, r>> \in teamRoomSockets
    /\ boundUser[s1] \in rooms[r].members
    /\ Cardinality(rooms[r].members) >= 2

\* C16: a join of a room by a connection that is already a member of it
\* sends no further join notification to the other members.
C16_RejoinNotifiesNobody ==
  [][\A p \in Rejoins :
       (/\ <<p.sock, <<p.team, p.rtype>>>> \in joined
        /\ JoinCheckDone(p, TRUE)) =>
         \A e \in emitted' : e.ev = "user_joined_room" => e.to = {}]_vars

\* the users an emitted event lists as the room's roster: room_joined
\* carries roomId, teamId, type, memberCount and timestamp, user_joined_room
\* the joining user, and no event of the service carries a list of members
Roster(e) == {}

\* C17: when a user joins a room that has members, the joiner is sent a
\* sync whose roster is exactly the members with the joiner, every
\* connection already in the room gets exactly one join notification for
\* the joiner, and the joiner gets none for itself.
C17_JoinSyncsRoster ==
  [][\A p \in PendingJoins :
       (/\ p \in pendingJoin /\ p \notin Rejoins
        /\ p.sock \in connected
        /\ RoomId(p.team, p.rtype) \in DOMAIN rooms
        /\ JoinCheckDone(p, TRUE)) =>
         LET r == RoomId(p.team, p.rtype)
             u == boundUser[p.sock]
             notes(s) == {e \in emitted' : /\ e.ev = "user_joined_room"
                                           /\ e.by = u /\ s \in e.to}
         IN
         /\ \E e \in emitted' :
              /\ e.ev = "room_joined" /\ p.sock \in e.to
              /\ Roster(e) = rooms'[r].members
         /\ \A s \in RoomConnections(r) \ {p.sock} :
              Cardinality(notes(s)) = 1
         /\ notes(p.sock) = {}]_vars

\* C18: when a user who has a registered, open connection registers a new
\* one, the prior connection is closed and is told the reason superseded.
C18_PriorClosedAsSuperseded ==
  [][\A s \in SocketIds :
       (/\ s \in DOMAIN authPending
        /\ authPending[s] \in Users
        /\ Evicts(s, authPending[s])
        /\ AuthDone(s)) =>
         LET old == userSessions[authPending[s]].socketId IN
         /\ old \notin connected'
         /\ \E e \in emitted' : e.ev = "superseded" /\ old \in e.to]_vars

\* the registered sockets the step takes out of the connection registry
Unregistered == DOMAIN socketUsers \ DOMAIN socketUsers'

\* C19: the disconnect cascade is one step: in the state that follows the
\* removal of a socket from socketUsers, the socket is out of the namespace,
\* owns no stream, and its user is in no room and in no session; no state
\* in between exists for another handler or callback to run in.
C19_CascadeAtomic ==
  [][\A s \in Unregistered :
       LET u == socketUsers[s].id IN
       /\ s \notin connected'
       /\ u \in DOMAIN userSessions' => userSessions'[u].socketId # s
       /\ \A x \in DOMAIN activeStreams' : OwnerSocket(activeStreams'[x]) # s
       /\ \A r \in DOMAIN rooms' : u \notin rooms'[r].members
       /\ \A sid \in DOMAIN collaborationSessions' :
            u \notin collaborationSessions'[sid].participants]_vars

\* the step just taken was the cascade of a connection that was in a room
\* and in a session and owned a stream (its subscribe run, past the point
\* where it stored the record, still waits for the initial data)
C19_Witness ==
  \E s \in Handled :
    /\ \E e \in emitted : e.ev = "user_left_room" /\ e.by = boundUser[s]
    /\ \E e \in emitted :
         e.ev = "collaboration_participant_left" /\ e.by = boundUser[s]
    /\ \E p \in pendingSub :
         /\ p.sock = s /\ p.phase = "data"
         /\ StreamId(p.team, p.chart, s) \notin DOMAIN activeStreams

\* the recurring pushes the last step wrote to a client
PushesDelivered ==
  {e \in emitted : e.ev = "analytics_update" /\ e.to # {}}

\* C20: a recurring push reaches a client only while the record of its
\* stream is stored and the socket that owns the stream is open, and a
\* heartbeat is emitted only while the service has not been cleaned up,
\* however timer ticks and data fetches interleave with the teardown
C20_NoPushAfterTeardown ==
  /\ \A e \in PushesDelivered :
        /\ e.stream \in DOMAIN activeStreams
        /\ activeStreams[e.stream].socketId \in connected
        /\ e.to = {activeStreams[e.stream].socketId}
  /\ \A e \in emitted : e.ev = "heartbeat" => ioOpen

\* a fetch of a recurring push returned after the teardown of its stream
\* and its push reached nobody
C20_Witness ==
  \E e \in emitted :
     /\ e.ev = "analytics_update"
     /\ e.stream \notin DOMAIN activeStreams
     /\ e.stream[4] \notin connected
     /\ e.to = {}

\* C21: in every reachable state the socket that owns a stream record is
\* registered in socketUsers
C21_StreamOwnerRegistered ==
  \A x \in DOMAIN activeStreams :
     OwnerSocket(activeStreams[x]) \in DOMAIN socketUsers

\* the step answered socket s with an error and nothing else, and left the
\* registries, the rooms, the streams, the sessions and the feeds alone
RefusedOnly(s) ==
  /\ emitted' # {}
  /\ \A e \in emitted' : e.ev = "error" /\ e.to = {s} \cap connected
  /\ UNCHANGED <<connected, socketUsers, userSessions, rooms,
                 teamRoomSockets, activeStreams, timers,
                 collaborationSessions, collabRoomSockets, activeChannels,
                 upstream>>

\* C22: a join_team_room or subscribe_analytics of a user who is not a
\* member of the team is answered with an error to the caller alone and
\* leaves rooms, streams, sessions, feed channels and the registries as
\* they were, the connection staying open
C22_OutsiderRefused ==
  [][/\ \A p \in PendingJoins, ok \in BOOLEAN :
          (JoinCheckDone(p, ok) /\ RoleOf(boundUser[p.sock], p.team) = "none")
             => RefusedOnly(p.sock)
     /\ \A p \in PendingSubs, ok \in BOOLEAN :
          (SubscribeCheckDone(p, ok)
             /\ RoleOf(boundUser[p.sock], p.team) = "none")
             => RefusedOnly(p.sock)]_vars

\* a user of no team was refused a room while a member's room, stream and
\* session exist
C22_Witness ==
  /\ \E e \in emitted :
        /\ e.ev = "error" /\ e.room \in RoomIds /\ e.to # {}
        /\ e.by \in Users /\ RoleOf(e.by, e.room[1]) = "none"
  /\ rooms # EmptyFcn
  /\ \E x \in DOMAIN activeStreams : activeStreams[x].type = "analytics"
  /\ collaborationSessions # EmptyFcn

\* the step answered socket s with an error and changed nothing the
\* service stores
RejectedUnchanged(s) ==
  /\ \E e \in emitted' : e.ev = "error" /\ e.to = {s}
  /\ UNCHANGED <<connVars, roomVars, sessVars, activeStreams, feedVars>>

\* C23: a command whose payload lacks the teamId (join_team_room,
\* start_collaboration) is answered with an error to the caller and changes
\* no state
C23_MalformedRejected ==
  [][\A s \in StreamSockets :
        /\ (\E ty \in RoomTypes : JoinTeamRoom(s, "missing", ty))
              => RejectedUnchanged(s)
        /\ StartCollaboration(s, "missing") => RejectedUnchanged(s)]_vars

\* the sockets that connected without a credential the provider accepts
RefusedSockets == {s \in opened : GateTokenOf(s) \notin Users}

\* what a command of socket s would have left behind
TracesOf(s) ==
  {p \in pendingJoin : p.sock = s} \cup {p \in pendingSub : p.sock = s}
  \cup {x \in DOMAIN activeStreams : OwnerSocket(activeStreams[x]) = s}
  \cup {r \in teamRoomSockets : r[1] = s}
  \cup {r \in collabRoomSockets : r[1] = s}

\* C24: a connection whose credential is missing or fails verification is
\* closed as soon as that is known, is never in socketUsers or userSessions,
\* and none of its commands is processed
C24_RefusedAtGate ==
  \A s \in RefusedSockets :
     /\ s \in connected => s \in DOMAIN authPending
     /\ s \notin DOMAIN socketUsers
     /\ s \notin DOMAIN boundUser
     /\ \A u \in DOMAIN userSessions : userSessions[u].socketId # s
     /\ TracesOf(s) = {}
     /\ \A e \in emitted :
           s \in e.to => e.ev \in {"error", "io server disconnect"}

\* both refusals have happened, the one after the provider's answer, while
\* a registered user holds a room
C24_Witness ==
  /\ \E s \in RefusedSockets :
        GateTokenOf(s) = "bad" /\ s \notin DOMAIN authPending
  /\ \E s \in RefusedSockets : GateTokenOf(s) = "missing"
  /\ rooms # EmptyFcn
  /\ \E e \in emitted : e.ev = "io server disconnect" /\ e.by = NoUser

\* the open, registered sockets of the users in us
OpenSocketsOf(us) ==
  {x \in connected \cap DOMAIN socketUsers : socketUsers[x].id \in us}

MayEndSession(u, sess) ==
  \/ sess.createdBy = u
  \/ u \in sess.participants
  \/ RoleOf(u, sess.teamId) = "manager"

\* C26: an end request for a session ends it only when the caller is its
\* creator, one of its participants or a manager of its team; the request
\* of any other user is answered 403 and leaves the session record as it was
C26_EndOnlyIfAuthorized ==
  [][\A u \in Users, sid \in SessionIds :
        ((EndSession(u, sid) \/ EndSessionCheckDone(<<u, sid>>))
           /\ sid \in DOMAIN collaborationSessions)
        => IF MayEndSession(u, collaborationSessions[sid])
           THEN \/ <<u, sid>> \in pendingEnd'
                \/ /\ collaborationSessions'[sid].status = "ended"
                   /\ Response("http 200", sid, u) \in emitted'
           ELSE /\ UNCHANGED collaborationSessions
                /\ \A e \in emitted' : e.ev # "collaboration_ended"
                /\ \/ <<u, sid>> \in pendingEnd'
                   \/ emitted' = {Response("http 403", sid, u)}]_vars

\* a user who is neither creator, participant nor manager was answered 403
\* for a session that is still active
C26_Witness ==
  \E e \in emitted :
     /\ e.ev = "http 403"
     /\ collaborationSessions[e.sid].status = "active"
     /\ ~MayEndSession(e.by, collaborationSessions[e.sid])

\* C27: an unsubscribe_analytics of the owner of a stream removes the stream
\* record and cancels its interval, so that no later push is delivered for
\* the stream id; the socket stays open and the other streams stay as they
\* were
C27_UnsubscribeCancels ==
  [][\A s \in StreamSockets, x \in StreamIds :
        (/\ UnsubscribeAnalytics(s, x)
         /\ x \in DOMAIN activeStreams
         /\ OwnerSocket(activeStreams[x]) = s)
        => /\ x \notin DOMAIN activeStreams'
           /\ Count(timers', x) = 0
           /\ s \in connected'
           /\ \A y \in DOMAIN activeStreams \ {x} :
                 y \in DOMAIN activeStreams'
                 /\ activeStreams'[y] = activeStreams[y]]_vars

\* C28: a leave_team_room of a member takes the user out of the room's
\* member set and the room record out of the registry when that set becomes
\* empty; one of a user who is not a member changes nothing; the socket
\* stays open in both cases
C28_LeaveRemovesMember ==
  [][\A s \in StreamSockets, r \in RoomIds :
        LeaveTeamRoom(s, r[1], r[2]) =>
          /\ s \in connected'
          /\ IF boundUser[s] \in MembersOf(r)
             THEN /\ <<s, r>> \notin teamRoomSockets'
                  /\ IF MembersOf(r) = {boundUser[s]}
                     THEN r \notin DOMAIN rooms'
                     ELSE rooms'[r].members = MembersOf(r) \ {boundUser[s]}
             ELSE UNCHANGED <<rooms, teamRoomSockets>>]_vars

\* the sessions whose status is active
ActiveSessions ==
  {sid \in DOMAIN collaborationSessions :
     collaborationSessions[sid].status = "active"}

\* C29: in every reachable state the collaborationSessions figure of the
\* statistics is the number of sessions whose status is active
C29_StatsCountActive ==
  GetStats.collaborationSessions = Cardinality(ActiveSessions)

\* C30: a recurring push whose fetch fails pushes no update in that cycle
\* and is not fatal: the stream records and the intervals stay as they
\* were, and the failed run is over, so that the interval's next callback
\* makes its own attempt
C30_FailedPushSkipped ==
  [][\A x \in StreamIds :
        FetchDone(x, FALSE) =>
          /\ \A e \in emitted' : e.ev # "analytics_update"
          /\ UNCHANGED <<activeStreams, timers, pushed>>
          /\ Count(inflight', x) = Count(inflight, x) - 1]_vars

\* a fetch of a live stream of an open socket has just failed and the
\* stream is still scheduled
C30_Witness ==
  \E e \in emitted :
     /\ e.ev = "analytics_error" /\ e.to # {}
     /\ StreamLive(activeStreams, e.stream)
     /\ Count(timers, e.stream) > 0
     /\ Count(inflight, e.stream) = 0

\* the rooms of team t that have members
RoomsWithMembers(t) == {r \in RoomIds : r[1] = t /\ MembersOf(r) # {}}

\* C31: a change the feed of team t delivers is broadcast to every room of
\* t that has members at that moment, whichever room of t was joined first
C31_FeedReachesEveryRoom ==
  [][\A cat \in FeedCategories, t \in Teams :
        FeedEvent(cat, t) =>
          \A r \in RoomsWithMembers(t) :
             \E e \in emitted' : e.ev = FeedEventName(cat) /\ e.room = r]_vars

\* C32: a message published for team t in one of the categories activity,
\* check-ins, alerts is broadcast to the sockets in the general room of t
C32_PublishedReachesRoom ==
  [][\A cat \in PubCategories, t \in Teams :
        (Publish(cat, t)
           /\ InTeamRoom(connected, teamRoomSockets, <<t, "general">>) # {})
        => \E e \in emitted' :
             /\ e.room = <<t, "general">>
             /\ e.ev \in {p[2] : p \in IntegrationPatterns}
             /\ e.to = InTeamRoom(connected, teamRoomSockets, e.room)]_vars

\* the number of reconnect timeouts that are pending
PendingReconnects ==
  LET RECURSIVE Sum(_)
      Sum(D) == IF D = {} THEN 0
                ELSE LET d == CHOOSE x \in D : TRUE
                     IN reconnectTimers[d] + Sum(D \ {d})
  IN Sum(DOMAIN reconnectTimers)

\* C33: a pending reconnect timeout, scheduled after k earlier attempts, has
\* the delay min(1000 * 2^k, 30000) ms; at most one reconnect timeout is
\* pending; reconnectAttempts never exceeds maxReconnectAttempts
C33_ReconnectBackoff ==
  /\ PendingReconnects <= 1
  /\ reconnectAttempts \in 0..5
  /\ \A d \in DOMAIN reconnectTimers :
        \/ d = 1000 * 2^reconnectAttempts /\ d <= 30000
        \/ d = 30000 /\ 1000 * 2^reconnectAttempts > 30000

\* the fifth attempt is pending, sixteen seconds after it was asked for
C33_Witness ==
  /\ reconnectAttempts = 4
  /\ reconnectInterval
  /\ Count(reconnectTimers, 16000) = 1

\* C34: every entry of socketUsers and of userSessions belongs to a socket
\* whose transport is connected
C34_RegistryOnlyConnected ==
  /\ DOMAIN socketUsers \subseteq connected
  /\ \A u \in DOMAIN userSessions : userSessions[u].socketId \in connected

\* C35: for every stream id at most one recurring push interval is live
C35_OneTimerPerStream ==
  \A x \in DOMAIN timers : timers[x] <= 1

\* C36: a collaboration_started announcement reaches the sockets of a team
\* room only when the user who started the session is a member of that team
C36_AnnounceOnlyForMembers ==
  \A e \in emitted :
     (e.ev = "collaboration_started" /\ e.to # {})
       => RoleOf(e.by, e.room[1]) # "none"

\* C37: while a team_events stream record of team t is stored, the channel
\* of each feed category of t is registered and subscribed, with a callback
\* that broadcasts to a room
C37_RecordImpliesChannels ==
  \A t \in Teams :
     HasTeamEvents(activeStreams, t) =>
       \A cat \in FeedCategories :
          /\ ChannelKnown(activeChannels, cat, t)
          /\ activeChannels[<<cat, t>>].callback # NoRoom
          /\ Count(upstream, <<cat, t>>) > 0

\* what the room of team t is sent when every delivered change has been
\* broadcast in the order of delivery
CastsInFeedOrder(t) ==
  [i \in 1..Len(checkinFeed[t]) |-> CheckInType(checkinFeed[t][i])]

\* C38: the check-in events broadcast to the room of a team are, in order,
\* the first of the changes its feed delivered: an insert followed by an
\* update of the row is broadcast as checkin_created, then checkin_updated
C38_CheckInsInFeedOrder ==
  \A t \in Teams :
     /\ Len(checkinCasts[t]) <= Len(checkinFeed[t])
     /\ \A i \in 1..Len(checkinCasts[t]) :
           checkinCasts[t][i] = CastsInFeedOrder(t)[i]

\* C39: once the presence channel of a team is subscribed, its roster is
\* the set of users who joined presence for the team and have not left
C39_RosterIsJoined ==
  \A t \in Teams :
     /\ (t \in DOMAIN presenceChannels /\
         presenceChannels[t].status = "SUBSCRIBED")
          => presenceRoster[t] = presenceJoined[t]
     /\ t \notin DOMAIN presenceChannels => presenceJoined[t] = {}

====
